---- MODULE Spec2Model ----
(***************************************************************************)
(* A model of reroute's RouterBuilder and Router (src/src/lib.rs).         *)
(*                                                                         *)
(* Strings are sequences of one-character strings.  The pattern library    *)
(* (regex::Regex, regex::RegexSet) is modelled for the fragment of its     *)
(* syntax that the route patterns below use: literals, `.`, `\d`, `\A`,    *)
(* `\z`, `\\`, bracketed classes, capture groups, alternation and `+`,     *)
(* with the library's leftmost-first, unanchored search semantics.         *)
(***************************************************************************)
EXTENDS Integers, Sequences, FiniteSets, TLC

\* Option<T>: None is the empty sequence, Some(v) the one-element sequence.
None == <<>>
Some(v) == <<v>>

(***************************************************************************)
(* regex syntax: parsing a pattern string                                  *)
(***************************************************************************)
Digits == {"0", "1", "2", "3", "4", "5", "6", "7", "8", "9"}

Empty == [t |-> "empty"]
Lit(c) == [t |-> "lit", c |-> c]
Cat(l, r) == [t |-> "cat", l |-> l, r |-> r]
Alt(l, r) == [t |-> "alt", l |-> l, r |-> r]
Plus(r) == [t |-> "plus", r |-> r]
Group(k, r) == [t |-> "group", k |-> k, r |-> r]

ParseError == [ok |-> FALSE]
Parsed(re, pos, ng) == [ok |-> TRUE, re |-> re, pos |-> pos, ng |-> ng]

\* An escape sequence: the character after a backslash.
ParseEscape(s, i, ng) ==
    IF i + 1 > Len(s) THEN ParseError
    ELSE CASE s[i + 1] = "A" -> Parsed([t |-> "start"], i + 2, ng)
           [] s[i + 1] = "z" -> Parsed([t |-> "end"], i + 2, ng)
           [] s[i + 1] = "d" -> Parsed([t |-> "digit"], i + 2, ng)
           [] s[i + 1] = "\\" -> Parsed(Lit("\\"), i + 2, ng)
           [] OTHER -> ParseError

\* The position of the first "]" at or after i, or 0 when there is none.
RECURSIVE ClassEnd(_, _)
ClassEnd(s, i) ==
    IF i > Len(s) THEN 0
    ELSE IF s[i] = "]" THEN i
    ELSE ClassEnd(s, i + 1)

\* A bracketed character class `[...]` of literal characters, closed at e.
ClassTo(s, i, ng, e) ==
    IF e = 0 THEN ParseError
    ELSE Parsed([t |-> "class", cs |-> {s[j] : j \in (i + 1)..(e - 1)}], e + 1, ng)

ParseClass(s, i, ng) == ClassTo(s, i, ng, ClassEnd(s, i + 2))

\* A group numbered k whose inside parsed as r: the `)` must follow.
CloseGroup(s, k, r) ==
    IF ~r.ok THEN ParseError
    ELSE IF r.pos > Len(s) THEN ParseError
    ELSE Parsed(Group(k, r.re), r.pos + 1, r.ng)

\* The concatenation of an item a and the rest r of a concatenation.
JoinCat(a, r) ==
    IF ~r.ok THEN ParseError
    ELSE IF r.re.t = "empty" THEN Parsed(a.re, r.pos, r.ng)
    ELSE Parsed(Cat(a.re, r.re), r.pos, r.ng)

\* The alternation of a branch l and the remaining branches r.
JoinAlt(l, r) ==
    IF ~r.ok THEN ParseError
    ELSE Parsed(Alt(l.re, r.re), r.pos, r.ng)

RECURSIVE ParseAlt(_, _, _)
RECURSIVE ParseCat(_, _, _)
RECURSIVE ParseRep(_, _)

\* One atom: a group, a class, an escape, `.` or a literal.
ParseAtom(s, i, ng) ==
    CASE s[i] = "(" -> CloseGroup(s, ng + 1, ParseAlt(s, i + 1, ng + 1))
      [] s[i] = "[" -> ParseClass(s, i, ng)
      [] s[i] = "\\" -> ParseEscape(s, i, ng)
      [] s[i] = "+" -> ParseError
      [] s[i] = "." -> Parsed([t |-> "any"], i + 1, ng)
      [] OTHER -> Parsed(Lit(s[i]), i + 1, ng)

\* The repetition operators that follow an atom a.
ParseRep(s, a) ==
    IF ~a.ok THEN a
    ELSE IF a.pos <= Len(s) /\ s[a.pos] = "+"
         THEN ParseRep(s, Parsed(Plus(a.re), a.pos + 1, a.ng))
         ELSE a

\* The rest of a concatenation whose first item parsed as a.
CatAfter(s, a) ==
    IF ~a.ok THEN ParseError
    ELSE JoinCat(a, ParseCat(s, a.pos, a.ng))

\* A concatenation, up to `|`, `)` or the end of the pattern.
ParseCat(s, i, ng) ==
    IF i > Len(s) \/ s[i] \in {"|", ")"} THEN Parsed(Empty, i, ng)
    ELSE CatAfter(s, ParseRep(s, ParseAtom(s, i, ng)))

\* The rest of an alternation whose first branch parsed as l.
AltAfter(s, l) ==
    IF ~l.ok THEN ParseError
    ELSE IF l.pos <= Len(s) /\ s[l.pos] = "|"
         THEN JoinAlt(l, ParseAlt(s, l.pos + 1, l.ng))
         ELSE l

\* An alternation of concatenations; `|` binds loosest.
ParseAlt(s, i, ng) == AltAfter(s, ParseCat(s, i, ng))

\* A pattern is compiled when the parse r consumed all of it.
Compiled(s, r) ==
    IF r.ok /\ r.pos = Len(s) + 1
    THEN [ok |-> TRUE, re |-> r.re, ng |-> r.ng]
    ELSE [ok |-> FALSE]

\* Regex::new: the compiled pattern, or an error.
RegexNew(s) == Compiled(s, ParseAlt(s, 1, 0))

(***************************************************************************)
(* regex matching: leftmost-first search with capture groups               *)
(***************************************************************************)
NoSpan == <<>>

RECURSIVE Run(_, _, _, _)
RECURSIVE RunEach(_, _, _, _)
RECURSIVE RunPlus(_, _, _, _)

\* Continue with `re` from every thread of `ts`, keeping priority order.
RunEach(re, s, ts, k) ==
    IF k > Len(ts) THEN <<>>
    ELSE Run(re, s, ts[k].pos, ts[k].caps) \o RunEach(re, s, ts, k + 1)

\* Greedy `+`: after each match of the body, try more before stopping.
RunPlus(re, s, ts, k) ==
    IF k > Len(ts) THEN <<>>
    ELSE (IF ts[k].adv
          THEN Run(Plus(re), s, ts[k].pos, ts[k].caps)
          ELSE <<>>)
         \o <<[pos |-> ts[k].pos, caps |-> ts[k].caps]>>
         \o RunPlus(re, s, ts, k + 1)

\* The threads ts, each marked with whether it moved past position i.
Advanced(ts, i) ==
    [k \in 1..Len(ts) |->
        [pos |-> ts[k].pos, caps |-> ts[k].caps, adv |-> ts[k].pos > i]]

\* The threads ts of the inside of group g, which began at position i.
Captured(ts, g, i) ==
    [k \in 1..Len(ts) |->
        [pos |-> ts[k].pos, caps |-> [ts[k].caps EXCEPT ![g] = <<i, ts[k].pos>>]]]

\* All the ways `re` matches s starting at position i, as the sequence of
\* [pos, caps] threads in the order a backtracking engine prefers them.
Run(re, s, i, caps) ==
    CASE re.t = "empty" -> <<[pos |-> i, caps |-> caps]>>
      [] re.t = "lit" ->
            IF i <= Len(s) /\ s[i] = re.c
            THEN <<[pos |-> i + 1, caps |-> caps]>> ELSE <<>>
      [] re.t = "any" ->
            IF i <= Len(s) /\ s[i] # "\n"
            THEN <<[pos |-> i + 1, caps |-> caps]>> ELSE <<>>
      [] re.t = "digit" ->
            IF i <= Len(s) /\ s[i] \in Digits
            THEN <<[pos |-> i + 1, caps |-> caps]>> ELSE <<>>
      [] re.t = "class" ->
            IF i <= Len(s) /\ s[i] \in re.cs
            THEN <<[pos |-> i + 1, caps |-> caps]>> ELSE <<>>
      [] re.t = "start" -> IF i = 1 THEN <<[pos |-> i, caps |-> caps]>> ELSE <<>>
      [] re.t = "end" ->
            IF i = Len(s) + 1 THEN <<[pos |-> i, caps |-> caps]>> ELSE <<>>
      [] re.t = "cat" -> RunEach(re.r, s, Run(re.l, s, i, caps), 1)
      [] re.t = "alt" -> Run(re.l, s, i, caps) \o Run(re.r, s, i, caps)
      [] re.t = "plus" -> RunPlus(re.r, s, Advanced(Run(re.r, s, i, caps), i), 1)
      [] re.t = "group" -> Captured(Run(re.r, s, i, caps), re.k, i)

RECURSIVE Search(_, _, _)

\* The match made of the threads ts found from position i, or the search
\* moved on to the next position.
SearchAt(rx, s, i, ts) ==
    IF ts # <<>>
    THEN [found |-> TRUE, start |-> i, end |-> ts[1].pos, caps |-> ts[1].caps]
    ELSE Search(rx, s, i + 1)

\* The leftmost start position at or after i from which `rx` matches.
Search(rx, s, i) ==
    IF i > Len(s) + 1 THEN [found |-> FALSE]
    ELSE SearchAt(rx, s, i, Run(rx.re, s, i, [k \in 1..rx.ng |-> NoSpan]))

\* Regex::is_match, which is what RegexSet::matches reports per pattern.
IsMatch(rx, s) == Search(rx, s, 1).found

\* The spans of group 0 and of every group of the match m, where a group
\* that did not participate has no span.
SpansIn(m) ==
    IF ~m.found THEN None
    ELSE Some(<<(<<m.start, m.end>>)>> \o m.caps)

\* Regex::captures: None, or the groups of the leftmost match.
RegexCaptures(rx, s) == SpansIn(Search(rx, s, 1))

(***************************************************************************)
(* the universe of inputs                                                  *)
(***************************************************************************)
MaxRoutes == 2

Methods == {"GET", "POST"}

\* The pattern strings passed to route.
RouteA == <<"/", "a">>
RouteDot == <<"/", "(", ".", ")">>
RouteAlt == <<"/", "a", "|", "/", "b">>
RouteBadClass == <<"/", "[">>
RouteBackslash == <<"/", "a", "\\">>
RouteBranches == <<"/", "(", "(", "a", ")", "|", "(", "b", ")", ")">>
RouteDigits == <<"/", "(", "\\", "d", "+", ")", "/", "(", "\\", "d", "+", ")">>

RoutePatterns ==
    {RouteA, RouteDot, RouteAlt, RouteBadClass, RouteBackslash, RouteBranches,
     RouteDigits}

\* The request paths.
PathA == <<"/", "a">>
PathB == <<"/", "b">>
PathC == <<"/", "c">>
PathAB == <<"/", "a", "b">>
PathDigits == <<"/", "4", "2", "/", "7">>

Paths == {PathA, PathB, PathC, PathAB, PathDigits}

Requests == [method : Methods, path : Paths]

\* Handlers are opaque closures; the closure passed to the i-th route call
\* is named "h" followed by i, the closure passed to not_found by "custom_not_found".
RouteHandlerOf(i) == "h" \o ToString(i)
CustomNotFound == "custom_not_found"
DefaultNotFound == "default_not_found"

(***************************************************************************)
(* responses                                                               *)
(***************************************************************************)
NoResponse == [status |-> 0, body |-> "", from |-> ""]

\* What a user-supplied handler h returns: its own response.
HandlerResponse(h) == [status |-> 200, body |-> "Ok", from |-> h]

default_not_found == [status |-> 404, body |-> "Not Found", from |-> DefaultNotFound]

not_allowed == [status |-> 405, body |-> "Method Not Allowed", from |-> "not_allowed"]

Panic == [status |-> 0, body |-> "panic", from |-> "index out of bounds"]

\* Calling the handler value h.
Call(h) == IF h = DefaultNotFound THEN default_not_found ELSE HandlerResponse(h)

(***************************************************************************)
(* state                                                                   *)
(***************************************************************************)
VARIABLES
    builder,      \* Option<RouterBuilder>: None once finalize has consumed it
    router,       \* Option<Router>: the Router finalize returned
    result,       \* what finalize returned: "none" (not called), "Ok", "Err"
    registered,   \* the arguments of the route calls made so far, in order
    fallback,     \* Option: the handler of the latest not_found call
    tasks         \* the handle calls in progress, one per request context

vars == <<builder, router, result, registered, fallback, tasks>>

NumTasks == 2
Tasks == 1..NumTasks

NoRequest == [method |-> "", path |-> <<>>]
Idle == [pc |-> "idle", req |-> NoRequest, matches |-> <<>>, invoked |-> <<>>,
         response |-> NoResponse]

\* RouterBuilder::new
Init ==
    /\ builder = Some([routes |-> <<>>, handlers |-> <<>>, not_found |-> None])
    /\ router = None
    /\ result = "none"
    /\ registered = <<>>
    /\ fallback = None
    /\ tasks = [w \in Tasks |-> Idle]

(***************************************************************************)
(* RouterBuilder                                                           *)
(***************************************************************************)
\* [r"\A", route, r"\z"].join("")
Anchor(route) == <<"\\", "A">> \o route \o <<"\\", "z">>

\* A route that skips a pattern string it has already stored.
PushRouteDedup(b, verb, route, handler) ==
    [b EXCEPT !.routes = IF \E i \in 1..Len(@) : @[i] = Anchor(route)
                         THEN @
                         ELSE Append(@, Anchor(route)),
              !.handlers = Append(@, <<verb, handler>>)]

\* The builder after route(verb, route, handler).
PushRoute(b, verb, route, handler) ==
    [b EXCEPT !.routes = Append(@, Anchor(route)),
              !.handlers = Append(@, <<verb, handler>>)]

Route(verb, route) ==
    /\ builder # None
    /\ Len(registered) < MaxRoutes
    /\ LET handler == RouteHandlerOf(Len(registered) + 1)
       IN  /\ builder' = Some(PushRoute(builder[1], verb, route, handler))
           /\ registered' = Append(registered,
                  [verb |-> verb, route |-> route, handler |-> handler])
    /\ UNCHANGED <<router, result, fallback, tasks>>

\* The builder after not_found(handler).
SetNotFound(b, handler) == [b EXCEPT !.not_found = Some(handler)]

NotFound ==
    /\ builder # None
    /\ builder' = Some(SetNotFound(builder[1], CustomNotFound))
    /\ fallback' = Some(CustomNotFound)
    /\ UNCHANGED <<router, result, registered, tasks>>

\* RegexSet::new and the collect over Regex::new: every pattern compiled,
\* or an error when one of them does not compile.
CompileAll(routes) ==
    LET rs == [i \in 1..Len(routes) |-> RegexNew(routes[i])]
    IN  IF \E i \in 1..Len(routes) : ~rs[i].ok
        THEN [ok |-> FALSE, res |-> <<>>]
        ELSE [ok |-> TRUE, res |-> rs]

\* A finalize that drops the builder's not_found.
FinalizeResultDefaultOnly(b) ==
    LET set == CompileAll(b.routes)
        pats == CompileAll(b.routes)
    IN  IF ~set.ok \/ ~pats.ok THEN None
        ELSE Some([routes |-> set.res,
                   patterns |-> pats.res,
                   handlers |-> b.handlers,
                   not_found |-> DefaultNotFound])

\* finalize: Ok(Router) as Some(router), Err as None.
FinalizeResult(b) ==
    LET set == CompileAll(b.routes)
        pats == CompileAll(b.routes)
    IN  IF ~set.ok \/ ~pats.ok THEN None
        ELSE Some([routes |-> set.res,
                   patterns |-> pats.res,
                   handlers |-> b.handlers,
                   not_found |-> IF b.not_found = None
                                 THEN DefaultNotFound
                                 ELSE b.not_found[1]])

Finalize ==
    /\ builder # None
    /\ router' = FinalizeResult(builder[1])
    /\ result' = IF router' = None THEN "Err" ELSE "Ok"
    /\ builder' = None
    /\ UNCHANGED <<registered, fallback, tasks>>

(***************************************************************************)
(* Router                                                                  *)
(***************************************************************************)
RECURSIVE SetMatchesFrom(_, _, _)
SetMatchesFrom(set, uri, i) ==
    IF i > Len(set) THEN <<>>
    ELSE (IF IsMatch(set[i], uri) THEN <<i>> ELSE <<>>)
         \o SetMatchesFrom(set, uri, i + 1)

\* A matcher whose indices come out in descending order.
SetMatchesDescending(set, uri) ==
    LET up == SetMatchesFrom(set, uri, 1)
    IN  [k \in 1..Len(up) |-> up[Len(up) + 1 - k]]

\* self.routes.matches(uri), iterated: the matching indices, ascending.
SetMatches(set, uri) == SetMatchesFrom(set, uri, 1)

Substr(s, span) == SubSeq(s, span[1], span[2] - 1)

RECURSIVE FilterSome(_, _, _)
FilterSome(spans, uri, k) ==
    IF k > Len(spans) THEN <<>>
    ELSE (IF spans[k] # NoSpan THEN <<Substr(uri, spans[k])>> ELSE <<>>)
         \o FilterSome(spans, uri, k + 1)

\* A get_captures that keeps a group that is None as an empty text.
get_captures_padded(pattern, uri) ==
    LET caps == RegexCaptures(pattern, uri)
    IN  IF caps = None THEN None
        ELSE Some([k \in 1..Len(caps[1]) |->
                      IF caps[1][k] # NoSpan THEN Substr(uri, caps[1][k]) ELSE <<>>])

\* A get_captures that skips group 0.
get_captures_skip0(pattern, uri) ==
    LET caps == RegexCaptures(pattern, uri)
    IN  IF caps = None THEN None
        ELSE Some(FilterSome(Tail(caps[1]), uri, 1))

\* get_captures: the text of every group of caps.iter() that is Some.
get_captures(pattern, uri) ==
    LET caps == RegexCaptures(pattern, uri)
    IN  IF caps = None THEN None
        ELSE Some(FilterSome(caps[1], uri, 1))

Invocation(h, req, captures) == [handler |-> h, req |-> req, captures |-> captures]

\* A loop that falls back to not_found when no method fits.
RECURSIVE DispatchLoopFallback(_, _, _, _)
DispatchLoopFallback(rt, req, matches, k) ==
    IF k > Len(matches)
    THEN [invoked |-> <<Invocation(rt.not_found, req, None)>>,
          response |-> Call(rt.not_found)]
    ELSE LET index == matches[k]
         IN  IF index \notin DOMAIN rt.handlers \/ index \notin DOMAIN rt.patterns
             THEN [invoked |-> <<>>, response |-> Panic]
             ELSE IF rt.handlers[index][1] # req.method
             THEN DispatchLoopFallback(rt, req, matches, k + 1)
             ELSE LET handler == rt.handlers[index][2]
                      captures == get_captures(rt.patterns[index], req.path)
                  IN  [invoked |-> <<Invocation(handler, req, captures)>>,
                       response |-> Call(handler)]

\* for index in matches { ... } not_allowed()
RECURSIVE DispatchLoop(_, _, _, _)
DispatchLoop(rt, req, matches, k) ==
    IF k > Len(matches)
    THEN [invoked |-> <<>>, response |-> not_allowed]
    ELSE LET index == matches[k]
         IN  IF index \notin DOMAIN rt.handlers \/ index \notin DOMAIN rt.patterns
             THEN [invoked |-> <<>>, response |-> Panic]
             ELSE IF rt.handlers[index][1] # req.method
             THEN DispatchLoop(rt, req, matches, k + 1)
             ELSE LET handler == rt.handlers[index][2]
                      captures == get_captures(rt.patterns[index], req.path)
                  IN  [invoked |-> <<Invocation(handler, req, captures)>>,
                       response |-> Call(handler)]

\* A handle without the matched_any test.
DispatchNoEmptyCheck(rt, req, matches) == DispatchLoop(rt, req, matches, 1)

\* handle, after `matches` has been computed.
Dispatch(rt, req, matches) ==
    IF matches = <<>>
    THEN [invoked |-> <<Invocation(rt.not_found, req, None)>>,
          response |-> Call(rt.not_found)]
    ELSE DispatchLoop(rt, req, matches, 1)

Done(req, matches, out) ==
    [pc |-> "done", req |-> req, matches |-> matches, invoked |-> out.invoked,
     response |-> out.response]

\* handle(req), as one call that runs to its return.
Handle(req) ==
    /\ router # None
    /\ tasks[1].pc = "idle"
    /\ LET matches == SetMatches(router[1].routes, req.path)
       IN  tasks' = [tasks EXCEPT
                        ![1] = Done(req, matches, Dispatch(router[1], req, matches))]
    /\ UNCHANGED <<builder, router, result, registered, fallback>>

(***************************************************************************)
(* handle called from several request contexts at once                     *)
(***************************************************************************)
\* let matches = self.routes.matches(uri);
HandleBegin(w, req) ==
    /\ router # None
    /\ tasks[w].pc = "idle"
    /\ tasks' = [tasks EXCEPT
                    ![w] = [pc |-> "matched", req |-> req,
                            matches |-> SetMatches(router[1].routes, req.path),
                            invoked |-> <<>>, response |-> NoResponse]]
    /\ UNCHANGED <<builder, router, result, registered, fallback>>

\* A dispatch that takes the handler it calls out of the Router.
HandleDispatchConsuming(w) ==
    /\ router # None
    /\ tasks[w].pc = "matched"
    /\ LET out == Dispatch(router[1], tasks[w].req, tasks[w].matches)
           taken == {i \in 1..Len(router[1].handlers) :
                        /\ out.invoked # <<>>
                        /\ router[1].handlers[i][2] = out.invoked[1].handler}
       IN  /\ tasks' = [tasks EXCEPT
                           ![w] = Done(tasks[w].req, tasks[w].matches, out)]
           /\ router' = Some([router[1] EXCEPT
                  !.handlers = [i \in 1..Len(@) |->
                                   IF i \in taken THEN <<"", @[i][2]>> ELSE @[i]]])
    /\ UNCHANGED <<builder, result, registered, fallback>>

\* The rest of handle: the matched_any test, the loop and the return value.
HandleDispatch(w) ==
    /\ router # None
    /\ tasks[w].pc = "matched"
    /\ tasks' = [tasks EXCEPT
                    ![w] = Done(tasks[w].req, tasks[w].matches,
                                Dispatch(router[1], tasks[w].req, tasks[w].matches))]
    /\ UNCHANGED <<builder, router, result, registered, fallback>>

\* The caller has taken the response; the context serves its next request.
HandleReturn(w) ==
    /\ tasks[w].pc = "done"
    /\ tasks' = [tasks EXCEPT ![w] = Idle]
    /\ UNCHANGED <<builder, router, result, registered, fallback>>

Next ==
    \/ \E verb \in Methods, route \in RoutePatterns : Route(verb, route)
    \/ NotFound
    \/ Finalize
    \/ \E req \in Requests : Handle(req)
    \/ HandleReturn(1)

Spec == Init /\ [][Next]_vars

\* Route tables of servers that have finished start-up.
ConcTables ==
    { <<[verb |-> "GET", route |-> RouteA], [verb |-> "GET", route |-> RouteDot]>>,
      <<[verb |-> "POST", route |-> RouteDot], [verb |-> "GET", route |-> RouteAlt]>>,
      <<[verb |-> "GET", route |-> RouteBranches]>> }

ConcRequests == [method : Methods, path : {PathA, PathAB}]

RECURSIVE BuilderOf(_, _)
BuilderOf(table, n) ==
    IF n = 0 THEN [routes |-> <<>>, handlers |-> <<>>, not_found |-> None]
    ELSE PushRoute(BuilderOf(table, n - 1), table[n].verb, table[n].route,
                   RouteHandlerOf(n))

\* The state after RouterBuilder::new, the route calls of a table and
\* finalize.
InitConc ==
    \E table \in ConcTables :
        /\ builder = None
        /\ router = FinalizeResult(BuilderOf(table, Len(table)))
        /\ result = "Ok"
        /\ registered = [i \in 1..Len(table) |->
                            [verb |-> table[i].verb, route |-> table[i].route,
                             handler |-> RouteHandlerOf(i)]]
        /\ fallback = None
        /\ tasks = [w \in Tasks |-> Idle]

NextConc ==
    \/ \E w \in Tasks, req \in ConcRequests : HandleBegin(w, req)
    \/ \E w \in Tasks : HandleDispatch(w)
    \/ \E w \in Tasks : HandleReturn(w)

SpecConc == InitConc /\ [][NextConc]_vars

(***************************************************************************)
(* vocabulary of the properties                                            *)
(***************************************************************************)
\* The handle calls that have returned.
DoneTasks == {w \in Tasks : tasks[w].pc = "done"}

\* The registered routes whose compiled pattern matches the path.
Candidates(rt, path) ==
    {i \in 1..Len(rt.patterns) : Search(rt.patterns[i], path, 1).found}

\* The candidates registered under the request's method.
Eligible(rt, req) ==
    {i \in Candidates(rt, req.path) : rt.handlers[i][1] = req.method}

Min(S) == CHOOSE i \in S : \A j \in S : i <= j

\* The spans of group 0 and of groups 1..n in the match of route i.
SpansOf(rt, i, path) == Search(rt.patterns[i], path, 1)

\* The texts of the groups 1..n that took part in the match, in order.
GroupTexts(m, path) ==
    LET part == SelectSeq(m.caps, LAMBDA sp : sp # NoSpan)
    IN  [k \in 1..Len(part) |-> SubSeq(path, part[k][1], part[k][2] - 1)]

\* The text of the whole match.
WholeText(m, path) == SubSeq(path, m.start, m.end - 1)

\* A pattern string matches the entire path, first to last character.
MatchesEntirePath(route, path) ==
    LET rx == RegexNew(route)
    IN  /\ rx.ok
        /\ \E th \in {x \in DOMAIN Run(rx.re, path, 1, [k \in 1..rx.ng |-> NoSpan]) : TRUE} :
               Run(rx.re, path, 1, [k \in 1..rx.ng |-> NoSpan])[th].pos = Len(path) + 1

\* The call of task w ended with a route handler's response.
RouteOutcome(w) ==
    /\ Len(tasks[w].invoked) = 1
    /\ \E i \in 1..Len(registered) :
           /\ tasks[w].invoked[1].handler = registered[i].handler
           /\ tasks[w].response = HandlerResponse(registered[i].handler)

\* The call of task w ended with the fallback's response.
FallbackOutcome(w) ==
    /\ Len(tasks[w].invoked) = 1
    /\ tasks[w].invoked[1].handler = router[1].not_found
    /\ tasks[w].response = Call(router[1].not_found)

\* The call of task w ended with the method-not-allowed response.
NotAllowedOutcome(w) ==
    /\ tasks[w].invoked = <<>>
    /\ tasks[w].response = not_allowed

C2_NoGroupsEmptyCaptures ==
    \A w \in DoneTasks :
        \A i \in Eligible(router[1], tasks[w].req) :
            router[1].patterns[i].ng = 0 =>
                /\ Len(tasks[w].invoked) = 1
                /\ tasks[w].invoked[1].handler = registered[i].handler
                /\ tasks[w].invoked[1].captures \in {None, Some(<<>>)}

\* C2 amended: for every route whose pattern has no capture group, a
\* request whose path matches the pattern and whose method is the route's
\* is dispatched to that route's handler, unless an earlier registered
\* route of that method matches too, and the captures are present and hold
\* one element, the matched text (for a literal pattern, the path).
C2_NoGroupsWholeMatchOnly ==
    \A w \in DoneTasks :
        \A i \in Eligible(router[1], tasks[w].req) :
            (/\ router[1].patterns[i].ng = 0
             /\ \A j \in Eligible(router[1], tasks[w].req) : i <= j) =>
                LET path == tasks[w].req.path
                    cap == tasks[w].invoked[1].captures
                IN  /\ Len(tasks[w].invoked) = 1
                    /\ tasks[w].invoked[1].handler = registered[i].handler
                    /\ cap # None
                    /\ Len(cap[1]) = 1
                    /\ cap[1][1] = WholeText(SpansOf(router[1], i, path), path)
                    /\ registered[i].route = RouteA => cap[1][1] = path

\* The literal route /a served GET /a.
C2_Witness ==
    \E w \in DoneTasks :
        /\ tasks[w].req = [method |-> "GET", path |-> PathA]
        /\ Len(registered) >= 1
        /\ registered[1] = [verb |-> "GET", route |-> RouteA, handler |-> "h1"]
        /\ tasks[w].invoked = <<Invocation("h1", tasks[w].req, Some(<<PathA>>))>>

(***************************************************************************)
(* C3                                                                      *)
(***************************************************************************)
\* C3: a route is a dispatch candidate in handle only if the pattern
\* string passed to route matches the entire path, whatever the pattern.
C3_CandidateOnlyOnFullMatch ==
    \A w \in DoneTasks :
        \A k \in 1..Len(tasks[w].matches) :
            MatchesEntirePath(registered[tasks[w].matches[k]].route, tasks[w].req.path)

(***************************************************************************)
(* C4                                                                      *)
(***************************************************************************)
\* C4: when routes of the request's method match the path, handle invokes
\* the handler of the one registered first, once, and no other handler.
C4_FirstRegisteredWins ==
    \A w \in DoneTasks :
        Eligible(router[1], tasks[w].req) # {} =>
            LET i == Min(Eligible(router[1], tasks[w].req))
            IN  /\ Len(tasks[w].invoked) = 1
                /\ tasks[w].invoked[1].handler = registered[i].handler
                /\ tasks[w].invoked[1].req = tasks[w].req
                /\ tasks[w].response = HandlerResponse(registered[i].handler)

\* Two routes of the request's method matched and the first was invoked.
C4_Witness ==
    \E w \in DoneTasks :
        /\ Cardinality(Eligible(router[1], tasks[w].req)) >= 2
        /\ Len(tasks[w].invoked) = 1
        /\ tasks[w].invoked[1].handler = "h1"

(***************************************************************************)
(* C5                                                                      *)
(***************************************************************************)
\* C5: when the path matches a registered pattern but no matching route
\* has the request's method, handle returns the method-not-allowed
\* response and invokes no handler, the fallback included.
C5_MethodNotAllowed ==
    \A w \in DoneTasks :
        (/\ Candidates(router[1], tasks[w].req.path) # {}
         /\ Eligible(router[1], tasks[w].req) = {}) =>
            /\ tasks[w].invoked = <<>>
            /\ tasks[w].response = not_allowed
            /\ tasks[w].response.status = 405
            /\ tasks[w].response.body = "Method Not Allowed"

\* A path matched under another method only, with a custom fallback set.
C5_Witness ==
    \E w \in DoneTasks :
        /\ Candidates(router[1], tasks[w].req.path) # {}
        /\ Eligible(router[1], tasks[w].req) = {}
        /\ fallback # None
        /\ tasks[w].response = not_allowed

(***************************************************************************)
(* C6                                                                      *)
(***************************************************************************)
\* C6: when the path matches no registered pattern, handle invokes the
\* fallback once with the request and no captures and returns its
\* response; the fallback is the handler given to not_found, or else the
\* default with its fixed status and body.
C6_NotFoundFallback ==
    \A w \in DoneTasks :
        Candidates(router[1], tasks[w].req.path) = {} =>
            LET fb == IF fallback = None THEN DefaultNotFound ELSE fallback[1]
            IN  /\ tasks[w].invoked = <<Invocation(fb, tasks[w].req, None)>>
                /\ tasks[w].response = Call(fb)
                /\ fallback = None =>
                       /\ tasks[w].response.status = 404
                       /\ tasks[w].response.body = "Not Found"
                /\ fallback # None =>
                       tasks[w].response = HandlerResponse(CustomNotFound)

\* A path no route matched went to the custom fallback of a router that
\* has routes.
C6_Witness ==
    \E w \in DoneTasks :
        /\ Candidates(router[1], tasks[w].req.path) = {}
        /\ Len(registered) >= 1
        /\ fallback = Some(CustomNotFound)
        /\ tasks[w].response = HandlerResponse(CustomNotFound)

(***************************************************************************)
(* C7                                                                      *)
(***************************************************************************)
\* C7: finalize fails and produces no Router exactly when one of the
\* pattern strings passed to route is not a valid pattern, wherever it is.
C7_FinalizeFailsIffInvalidPattern ==
    result # "none" =>
        LET invalid == \E i \in 1..Len(registered) : ~RegexNew(registered[i].route).ok
        IN  /\ invalid => (result = "Err" /\ router = None)
            /\ ~invalid => (result = "Ok" /\ router # None)

(***************************************************************************)
(* C8                                                                      *)
(***************************************************************************)
\* C8: every handle call ends in exactly one of three outcomes: the
\* fallback's response iff no pattern matches the path, method-not-allowed
\* iff patterns match but none under the request's method, the selected
\* route handler's response iff a matching route has the method.
C8_ThreeOutcomes ==
    \A w \in DoneTasks :
        LET cand == Candidates(router[1], tasks[w].req.path)
            elig == Eligible(router[1], tasks[w].req)
        IN  /\ FallbackOutcome(w) <=> cand = {}
            /\ NotAllowedOutcome(w) <=> (cand # {} /\ elig = {})
            /\ RouteOutcome(w) <=> elig # {}
            /\ tasks[w].response # Panic
            /\ Cardinality({o \in {"fallback", "not_allowed", "route"} :
                    \/ o = "fallback" /\ FallbackOutcome(w)
                    \/ o = "not_allowed" /\ NotAllowedOutcome(w)
                    \/ o = "route" /\ RouteOutcome(w)}) = 1

\* A router with two routes has answered with method-not-allowed.
C8_Witness ==
    \E w \in DoneTasks :
        /\ Len(registered) = 2
        /\ NotAllowedOutcome(w)
        /\ ~FallbackOutcome(w)
        /\ ~RouteOutcome(w)

(***************************************************************************)
(* C10                                                                     *)
(***************************************************************************)
\* C10: the builder's pattern list and handler list have one entry per
\* route call, entry i holding the anchored pattern, method and handler of
\* call i; after finalize the combined matcher, patterns and handlers are
\* aligned the same way, and the matcher reports valid indices only.
C10_IndexAlignment ==
    /\ builder # None =>
           /\ Len(builder[1].routes) = Len(registered)
           /\ Len(builder[1].handlers) = Len(registered)
           /\ \A i \in 1..Len(registered) :
                  /\ builder[1].routes[i]
                       = <<"\\", "A">> \o registered[i].route \o <<"\\", "z">>
                  /\ builder[1].handlers[i]
                       = <<registered[i].verb, registered[i].handler>>
    /\ router # None =>
           /\ Len(router[1].routes) = Len(registered)
           /\ Len(router[1].patterns) = Len(registered)
           /\ Len(router[1].handlers) = Len(registered)
           /\ \A i \in 1..Len(registered) :
                  LET rx == RegexNew(<<"\\", "A">> \o registered[i].route \o <<"\\", "z">>)
                  IN  /\ router[1].routes[i] = rx
                      /\ router[1].patterns[i] = rx
                      /\ router[1].handlers[i]
                           = <<registered[i].verb, registered[i].handler>>
           /\ \A w \in DoneTasks :
                  \A k \in 1..Len(tasks[w].matches) :
                      tasks[w].matches[k] \in 1..Len(registered)

\* A router of two routes, built after a not_found call, reported the
\* second route as a match.
C10_Witness ==
    /\ router # None
    /\ Len(registered) = 2
    /\ fallback # None
    /\ \E w \in DoneTasks : tasks[w].matches = <<2>>

(***************************************************************************)
(* C9                                                                      *)
(***************************************************************************)
\* C9: handle calls with the same method and path end the same way with
\* the same captures whatever ran before or runs at the same time, and no
\* handle call changes the Router.
C9_DeterministicReadOnly ==
    /\ [](\A w1, w2 \in DoneTasks :
            tasks[w1].req = tasks[w2].req =>
                /\ tasks[w1].invoked = tasks[w2].invoked
                /\ tasks[w1].response = tasks[w2].response)
    /\ [][router' = router]_vars

\* Two calls for the same request have returned, a route handler chosen.
C9_Witness ==
    /\ \A w \in Tasks : tasks[w].pc = "done"
    /\ \A w \in Tasks : tasks[w].req = [method |-> "GET", path |-> PathA]
    /\ \A w \in Tasks : Len(tasks[w].invoked) = 1

====
